---- MODULE Spec2Model ----
(***************************************************************************)
(* RoslynLanguageServer (src/lsptoolshost/roslynLanguageServer.ts): the    *)
(* lifecycle wrapper that creates a LanguageClient, lazily launches the    *)
(* language server process, relays Razor document notifications and reacts *)
(* to extension install changes.                                           *)
(*                                                                         *)
(* A JavaScript string is a sequence of tokens (<<"/srv/Server", ".dll">>  *)
(* is "/srv/Server.dll"); the empty string is <<>>, which is also how an   *)
(* undefined string value is written, since the code only tests such       *)
(* values for truthiness.  Async functions are cut at their awaits: each   *)
(* action is one run-to-completion segment of the event loop.              *)
(***************************************************************************)
EXTENDS Integers, Sequences, FiniteSets, TLC

\* ---------------------------------------------------------------- bounds

\* LanguageClient instances created in one behaviour.
MaxClients == 2

\* Restart prompts counted since the last activation.
MaxPrompts == 2

\* LanguageClient instances created in one behaviour of the launch specification.
MaxLaunches == 1

\* LanguageClient instances created in one behaviour of the log level specification.
MaxStarts == 2

\* LanguageClient instances created in one behaviour of the extensions specification.
MaxActivations == 1

\* LanguageClient instances created in one behaviour of the specification of
\* launches that overlap.
MaxOverlaps == 2

\* LanguageClient instances created in one behaviour of the options specification.
MaxOptionStarts == 2

\* LanguageClient instances created in one behaviour of the specification of
\* lifecycle calls that overlap.
MaxReentrantClients == 3

\* LanguageClient instances created in one behaviour of the spawn specification.
MaxSpawns == 1

\* ------------------------------------------------------------- constants

_stopTimeout == 10000

csharpDevkitExtensionId == <<"ms-dotnettools", ".csdevkit">>

roslynDidOpenCommand == "roslyn.openRazorCSharp"

roslynDidChangeCommand == "roslyn.changeRazorCSharp"

roslynDidCloseCommand == "roslyn.closeRazorCSharp"

RelayCommands == {roslynDidOpenCommand, roslynDidChangeCommand, roslynDidCloseCommand}

\* DidOpen/DidChange/DidCloseTextDocumentNotification.method, as registerRazor pairs them.
RelayMethod(command) ==
    CASE command = roslynDidOpenCommand -> "textDocument/didOpen"
      [] command = roslynDidChangeCommand -> "textDocument/didChange"
      [] command = roslynDidCloseCommand -> "textDocument/didClose"

\* ------------------------------------------------------- pure functions

\* GetTraceLevel with a default case that returns Trace.Off instead of throwing.
GetTraceLevelDefaultOff(logLevel) ==
    CASE logLevel = <<"Trace">> -> "Verbose"
      [] logLevel = <<"Debug">> -> "Messages"
      [] OTHER -> "Off"

\* What GetTraceLevel yields for a log level: a Trace value, or "throw".
GetTraceLevel(logLevel) ==
    CASE logLevel = <<"Trace">> -> "Verbose"
      [] logLevel = <<"Debug">> -> "Messages"
      [] logLevel = <<"Information">> -> "Off"
      [] logLevel = <<"Warning">> -> "Off"
      [] logLevel = <<"Error">> -> "Off"
      [] logLevel = <<"Critical">> -> "Off"
      [] logLevel = <<"None">> -> "Off"
      [] OTHER -> "throw"

\* getServerFileName: the bundled server's file name on a platform.
getServerFileName(platform) ==
    LET serverFileName == <<"Microsoft.CodeAnalysis.LanguageServer">>
        windows == IF platform = "win32" THEN <<".exe">> ELSE <<>>
        extension == IF platform = "darwin" THEN <<".dll">> ELSE windows
    IN  serverFileName \o extension

\* The server path startServer resolves: the serverPath option, else the bundled path.
ResolveServerPath(optionPath, platform) ==
    IF optionPath = <<>>
    THEN <<"<clientRoot>", "/..", "/.roslyn", "/">> \o getServerFileName(platform)
    ELSE optionPath

\* String.prototype.endsWith, on token strings, for a one-token suffix.
endsWith(str, suffix) == str # <<>> /\ str[Len(str)] = suffix

\* vscode.Uri.fsPath of a file Uri.
fsPath(uri) == uri.path

NoUri == [scheme |-> "none", path |-> <<>>]

\* csharpDevkitExtension.activate() results: undefined, or an exports object.
NoExports == [defined |-> FALSE, pipeFn |-> FALSE, pipeName |-> <<>>, starred |-> <<>>]

\* getBrokeredServicePipeName: the pipe name (<<>> when there is none), or "throw".
getBrokeredServicePipeName(flag, exports) ==
    IF flag # "true" \/ ~exports.defined
    THEN [throw |-> FALSE, value |-> <<>>]
    ELSE IF ~exports.pipeFn
         THEN [throw |-> TRUE, value |-> <<>>]
         ELSE [throw |-> FALSE, value |-> exports.pipeName]

\* getStarredCompletionComponentPath: the component path, <<>> when there is none.
getStarredCompletionComponentPath(flag, exports) ==
    IF flag # "true" \/ ~exports.defined \/ exports.starred = <<>>
    THEN <<>>
    ELSE exports.starred

\* The args array with "if (solutionPath)" in place of "else if (solutionPath)".
BuildArgsBoth(waitForDebugger, logLevel, brokeredServicePipeName, solutionPath, starred) ==
    (IF waitForDebugger THEN << <<"--debug">> >> ELSE <<>>)
    \o (IF logLevel # <<>> THEN << <<"--logLevel">>, logLevel >> ELSE <<>>)
    \o (IF brokeredServicePipeName # <<>>
        THEN << <<"--brokeredServicePipeName">>, brokeredServicePipeName >>
        ELSE <<>>)
    \o (IF solutionPath # NoUri
        THEN << <<"--solutionPath">>, fsPath(solutionPath) >>
        ELSE <<>>)
    \o (IF starred # <<>>
        THEN << <<"--starredCompletionComponentPath">>, starred >>
        ELSE <<>>)

\* The args array startServer builds.
BuildArgs(waitForDebugger, logLevel, brokeredServicePipeName, solutionPath, starred) ==
    (IF waitForDebugger THEN << <<"--debug">> >> ELSE <<>>)
    \o (IF logLevel # <<>> THEN << <<"--logLevel">>, logLevel >> ELSE <<>>)
    \o (IF brokeredServicePipeName # <<>>
        THEN << <<"--brokeredServicePipeName">>, brokeredServicePipeName >>
        ELSE IF solutionPath # NoUri
             THEN << <<"--solutionPath">>, fsPath(solutionPath) >>
             ELSE <<>>)
    \o (IF starred # <<>>
        THEN << <<"--starredCompletionComponentPath">>, starred >>
        ELSE <<>>)

\* The cp.spawn call without the .dll branch: every server path is run directly.
SpawnCallDirect(serverPath, args) == [command |-> serverPath, args |-> args]

\* The cp.spawn call startServer makes for a server path and its args.
SpawnCall(serverPath, args) ==
    IF endsWith(serverPath, ".dll")
    THEN [command |-> <<"dotnet">>, args |-> <<serverPath>> \o args]
    ELSE [command |-> serverPath, args |-> args]

NoSpawn == [command |-> <<>>, args |-> <<>>]

\* ---------------------------------------------------------------- state

VARIABLES
    languageClient,                 \* _languageClient: a client's index in clients, 0 for undefined
    wasActivatedWithCSharpDevkit,   \* _wasActivatedWithCSharpDevkit: "undefined", "true" or "false"
    clients,                        \* every LanguageClient created so far, in creation order
    commands,                       \* vscode.commands: relay command -> client its handler closes over, 0 if unregistered
    devkitInstalled,                \* whether vscode.extensions.getExtension finds C# Devkit
    call,                           \* the lifecycle call in flight and the await it is suspended at
    last,                           \* how the last finished lifecycle call settled
    prompts,                        \* restart prompts shown since the flag was last set
    relay,                          \* what the last relay command invocation sent, and to whom
    overlapping                     \* a second lifecycle call in flight, suspended at its await

vars == <<languageClient, wasActivatedWithCSharpDevkit, clients, commands, devkitInstalled,
          call, last, prompts, relay, overlapping>>

Idle == [op |-> "none", pc |-> "idle", logLevel |-> <<>>, awaited |-> 0]

NoCall == [op |-> "none", result |-> "none", error |-> "none", created |-> 0]

NoRelay == [command |-> "none", payload |-> "none", receiver |-> 0, method |-> "none",
            sent |-> "none", count |-> 0]

\* new LanguageClient(...) with the serverOptions factory and the state handler
\* start() closes over, after client.start() has set it starting.
NewClient(logLevel, solutionPath, traceLevel) ==
    [state |-> "Starting", logLevel |-> logLevel, solutionPath |-> solutionPath,
     traceLevel |-> traceLevel, trace |-> "unset", traceError |-> FALSE,
     launch |-> "pending", devkitFound |-> FALSE, serverPath |-> <<>>,
     waitForDebugger |-> FALSE, vsGreenExports |-> NoExports,
     pipeName |-> <<>>, starred |-> <<>>,
     spawn |-> NoSpawn, process |-> "none", failure |-> "none",
     stopTimeout |-> 0, disposeTimeout |-> 0]

ClientIds == 1..Len(clients)

\* The clients whose server child process is running.
RunningProcesses == {c \in ClientIds : clients[c].process = "running"}

\* The clients that were started and have not been stopped.
LiveClients == {c \in ClientIds : clients[c].state \in {"Starting", "Running"}}

Init ==
    /\ languageClient = 0
    /\ wasActivatedWithCSharpDevkit = "undefined"
    /\ clients = <<>>
    /\ commands = [c \in RelayCommands |-> 0]
    /\ devkitInstalled \in BOOLEAN
    /\ call = Idle
    /\ last = NoCall
    /\ prompts = 0
    /\ relay = NoRelay
    /\ overlapping = Idle

\* ------------------------------------------------------------ lifecycle

\* start() up to its first await: the options snapshot is taken.
StartBegin(op, logLevel, stopped) ==
    call' = [op |-> op, pc |-> "start_wait", logLevel |-> logLevel, awaited |-> stopped]

Settle(op, result, error, created) ==
    /\ call' = Idle
    /\ last' = [op |-> op, result |-> result, error |-> error, created |-> created]

\* registerRazor's three vscode.commands.registerCommand calls: the host throws
\* on an identifier that is already registered, and no registration is disposed.
registerRazor(cmds, client) ==
    IF cmds[roslynDidOpenCommand] # 0
    THEN [throw |-> TRUE, commands |-> cmds]
    ELSE [throw |-> FALSE, commands |-> [c \in RelayCommands |-> client]]

\* start(): a call from the host.
CallStart(logLevel) ==
    /\ call.pc = "idle"
    /\ StartBegin("start", logLevel, 0)
    /\ UNCHANGED <<languageClient, wasActivatedWithCSharpDevkit, clients, commands,
                   devkitInstalled, last, prompts, relay,
                   overlapping>>

\* start() after getHostExecutableInfo and findFiles have settled.
StartResumed(hostFound, solutionPath) ==
    /\ call.pc = "start_wait"
    /\ LET traceLevel == GetTraceLevel(call.logLevel)
           id == Len(clients) + 1
           reg == registerRazor(commands, id)
       IN  IF ~hostFound
           THEN /\ Settle(call.op, "rejected", "host-not-found", 0)
                /\ UNCHANGED <<languageClient, clients, commands>>
           ELSE IF traceLevel = "throw"
           THEN /\ Settle(call.op, "rejected", "invalid-log-level", 0)
                /\ UNCHANGED <<languageClient, clients, commands>>
           ELSE /\ clients' = Append(clients, NewClient(call.logLevel, solutionPath, traceLevel))
                /\ languageClient' = id
                /\ commands' = reg.commands
                /\ IF reg.throw
                   THEN Settle(call.op, "rejected", "command-exists", id)
                   ELSE Settle(call.op, "resolved", "none", id)
    /\ UNCHANGED <<wasActivatedWithCSharpDevkit, devkitInstalled, prompts, relay,
                   overlapping>>

\* stop() up to its await: shutdown is requested of the held client, if any.
StopBegin(op) ==
    /\ call.pc = "idle"
    /\ call' = [op |-> op, pc |-> "stop_wait", logLevel |-> <<>>, awaited |-> languageClient]
    /\ clients' = IF languageClient = 0
                  THEN clients
                  ELSE [clients EXCEPT ![languageClient].stopTimeout = _stopTimeout]

CallStop ==
    /\ StopBegin("stop")
    /\ UNCHANGED <<languageClient, wasActivatedWithCSharpDevkit, commands, devkitInstalled,
                   last, prompts, relay,
                   overlapping>>

\* deactivate(): the host's hook, which stops the server.
Deactivate ==
    /\ StopBegin("deactivate")
    /\ UNCHANGED <<languageClient, wasActivatedWithCSharpDevkit, commands, devkitInstalled,
                   last, prompts, relay,
                   overlapping>>

CallRestart ==
    /\ StopBegin("restart")
    /\ UNCHANGED <<languageClient, wasActivatedWithCSharpDevkit, commands, devkitInstalled,
                   last, prompts, relay,
                   overlapping>>

\* LanguageClient.stop(timeout) settling: whether it may resolve, whether it may reject.
\* A running client shuts down or times out; a client that is not running cannot be stopped.
StopMayResolve(c) == IF c = 0 THEN TRUE ELSE clients[c].state \in {"Running", "Stopped"}

\* stop() dereferencing the handle without "?.": it throws on an undefined handle.
StopMayRejectUnchained(c) ==
    IF c = 0 THEN TRUE ELSE clients[c].state \in {"Running", "Starting", "StartFailed"}

StopMayReject(c) ==
    IF c = 0 THEN FALSE ELSE clients[c].state \in {"Running", "Starting", "StartFailed"}

\* The client after its stop resolved: stopped, its server process gone.
Stopped(client) ==
    [client EXCEPT !.state = "Stopped",
                   !.process = IF client.process = "running" THEN "exited" ELSE client.process]

\* restart() with a stop() whose failure is swallowed.
restartContinuesAlways(op, resolved) == op = "restart"

\* What restart() does once stop() has settled: start(), or nothing.
restartContinues(op, resolved) == op = "restart" /\ resolved

\* stop() with its dispose and clear in a finally block.
disposesAfterStopAlways(resolved) == TRUE

\* Whether stop() goes on to dispose and clear after its await: a rejection
\* of the awaited client.stop() leaves stop() at that line.
disposesAfterStop(resolved) == resolved

\* stop() after its await: dispose and clear the handle, or reject.
StopSettled(resolved, logLevel) ==
    /\ call.pc = "stop_wait"
    /\ IF resolved THEN StopMayResolve(call.awaited) ELSE StopMayReject(call.awaited)
    /\ LET c == call.awaited
           afterStop == IF resolved /\ c # 0 THEN [clients EXCEPT ![c] = Stopped(clients[c])]
                        ELSE clients
           afterDispose == IF disposesAfterStop(resolved) /\ languageClient # 0
                           THEN [afterStop EXCEPT ![languageClient].disposeTimeout = _stopTimeout]
                           ELSE afterStop
       IN  /\ clients' = afterDispose
           /\ languageClient' = IF disposesAfterStop(resolved) THEN 0 ELSE languageClient
           /\ IF restartContinues(call.op, resolved)
              THEN StartBegin("restart", logLevel, c) /\ UNCHANGED last
              ELSE Settle(call.op, IF resolved THEN "resolved" ELSE "rejected",
                          IF resolved THEN "none" ELSE "stop-failed", 0)
    /\ UNCHANGED <<wasActivatedWithCSharpDevkit, commands, devkitInstalled,
                   prompts, relay,
                   overlapping>>

\* The event loop turns to the other lifecycle call: the host calls start(),
\* stop() or restart() while one call is suspended at an await, or the
\* suspended call is the one whose await settles next.  call is the lifecycle
\* call whose next segment runs; nothing in the class keeps the two apart.
Interleave ==
    /\ call.pc # "idle" \/ overlapping.pc # "idle"
    /\ call' = overlapping
    /\ overlapping' = call
    /\ UNCHANGED <<languageClient, wasActivatedWithCSharpDevkit, clients, commands,
                   devkitInstalled, last, prompts, relay>>

\* --------------------------------------------------------------- launch

\* waitForCSharpDevkitActivationAndGetExports, up to its await: the flag it records.
ActivationFlag(installed) == IF installed THEN "true" ELSE "false"

\* The serverOptions factory of client c runs startServer, up to the await of
\* waitForCSharpDevkitActivationAndGetExports; platform is what platformInfo reports.
LaunchBegin(c, optionPath, platform, exists) ==
    /\ c \in ClientIds
    /\ clients[c].state = "Starting"
    /\ clients[c].launch = "pending"
    /\ LET serverPath == ResolveServerPath(optionPath, platform)
       IN  IF ~exists
           THEN /\ clients' = [clients EXCEPT ![c].state = "StartFailed",
                                              ![c].launch = "failed",
                                              ![c].serverPath = serverPath,
                                              ![c].failure = "missing-binary"]
                /\ UNCHANGED <<wasActivatedWithCSharpDevkit, prompts>>
           ELSE /\ clients' = [clients EXCEPT ![c].launch = "activating",
                                              ![c].serverPath = serverPath,
                                              ![c].devkitFound = devkitInstalled]
                /\ wasActivatedWithCSharpDevkit' = ActivationFlag(devkitInstalled)
                /\ prompts' = 0
    /\ UNCHANGED <<languageClient, commands, devkitInstalled, call, last, relay,
                   overlapping>>

\* startServer of client c after the exports and the pipe name have arrived:
\* the args are built and the process is spawned, or the launch throws.
LaunchFinish(c, activated, waitForDebugger) ==
    /\ c \in ClientIds
    /\ clients[c].state = "Starting"
    /\ clients[c].launch = "activating"
    /\ LET vsGreenExports == IF clients[c].devkitFound THEN activated ELSE NoExports
           pipe == getBrokeredServicePipeName(wasActivatedWithCSharpDevkit, vsGreenExports)
           starred == getStarredCompletionComponentPath(wasActivatedWithCSharpDevkit,
                                                        vsGreenExports)
           args == BuildArgs(waitForDebugger, clients[c].logLevel, pipe.value,
                             clients[c].solutionPath, starred)
       IN  IF pipe.throw
           THEN clients' = [clients EXCEPT ![c].state = "StartFailed",
                                           ![c].launch = "failed",
                                           ![c].vsGreenExports = vsGreenExports,
                                           ![c].failure = "missing-export"]
           ELSE clients' = [clients EXCEPT ![c].launch = "done",
                                           ![c].waitForDebugger = waitForDebugger,
                                           ![c].vsGreenExports = vsGreenExports,
                                           ![c].pipeName = pipe.value,
                                           ![c].starred = starred,
                                           ![c].spawn = SpawnCall(clients[c].serverPath, args),
                                           ![c].process = "running"]
    /\ UNCHANGED <<languageClient, wasActivatedWithCSharpDevkit, commands, devkitInstalled,
                   call, last, prompts, relay,
                   overlapping>>

\* Client c finishes its handshake: onDidChangeState fires with State.Running and
\* the handler start() registered sets the trace level on the client then held.
ClientRunning(c) ==
    /\ c \in ClientIds
    /\ clients[c].state = "Starting"
    /\ clients[c].process = "running"
    /\ LET running == [clients EXCEPT ![c].state = "Running"]
       IN  clients' = IF languageClient = 0
                      THEN [running EXCEPT ![c].traceError = TRUE]
                      ELSE [running EXCEPT ![languageClient].trace = clients[c].traceLevel]
    /\ UNCHANGED <<languageClient, wasActivatedWithCSharpDevkit, commands, devkitInstalled,
                   call, last, prompts, relay,
                   overlapping>>

\* ------------------------------------------------------- extension events

\* The handler's decision without its early return on an undefined flag.
ShowsPromptUnlessActivatedWith(flag, present) == present /\ flag # "true"

\* The onDidChange handler's decision: whether it shows the restart prompt.
ShowsPrompt(flag, present) ==
    IF flag = "undefined"
    THEN FALSE
    ELSE present /\ flag = "false"

\* vscode.extensions.onDidChange: the set of installed extensions changed, after
\* which C# Devkit is present or not, and the constructor's handler runs.
ExtensionsChanged(present) ==
    /\ devkitInstalled' = present
    /\ IF ShowsPrompt(wasActivatedWithCSharpDevkit, present)
       THEN prompts < MaxPrompts /\ prompts' = prompts + 1
       ELSE UNCHANGED prompts
    /\ UNCHANGED <<languageClient, wasActivatedWithCSharpDevkit, clients, commands,
                   call, last, relay,
                   overlapping>>

\* ---------------------------------------------------------------- relay

\* client.sendNotification(method, payload) from a relay handler: what reaches
\* the server of the client the handler closes over.
Forward(target, command, payload) ==
    IF (IF target = 0 THEN FALSE ELSE clients[target].state = "Running")
    THEN [command |-> command, payload |-> payload, receiver |-> target,
          method |-> RelayMethod(command), sent |-> payload, count |-> 1]
    ELSE [command |-> command, payload |-> payload, receiver |-> 0,
          method |-> "none", sent |-> "none", count |-> 0]

\* The Razor extension executes one of the three relay commands.
InvokeCommand(command, payload) ==
    /\ commands[command] # 0
    /\ relay' = Forward(commands[command], command, payload)
    /\ UNCHANGED <<languageClient, wasActivatedWithCSharpDevkit, clients, commands,
                   devkitInstalled, call, last, prompts,
                   overlapping>>

\* -------------------------------------------------------- specifications

\* The options the provider returns and the files the workspace holds.
LogLevels == {<<"Trace">>, <<"Information">>, <<"Loud">>}

Solution == [scheme |-> "file", path |-> <<"/work", "/app", ".sln">>]

WithoutPipeName == [defined |-> TRUE, pipeFn |-> FALSE, pipeName |-> <<>>, starred |-> <<>>]

WithPipeName == [defined |-> TRUE, pipeFn |-> TRUE, pipeName |-> <<"pipe-1">>, starred |-> <<>>]

Activations == {NoExports, WithoutPipeName, WithPipeName}

Payloads == {"doc-a", "doc-b"}

\* The lifecycle calls and the asynchronous steps of the clients they create,
\* with at most max clients created.
Lifecycle(max) ==
    \/ \E lvl \in LogLevels : Len(clients) < max /\ CallStart(lvl)
    \/ CallStop
    \/ Deactivate
    \/ Len(clients) < max /\ CallRestart
    \/ \E ok \in BOOLEAN, lvl \in LogLevels : StopSettled(ok, lvl)
    \/ \E found \in BOOLEAN : StartResumed(found, Solution)
    \/ \E c \in ClientIds, exists \in BOOLEAN : LaunchBegin(c, <<>>, "linux", exists)
    \/ \E c \in ClientIds, a \in Activations : LaunchFinish(c, a, FALSE)
    \/ \E c \in ClientIds : ClientRunning(c)

Next == Lifecycle(MaxClients)

Spec == Init /\ [][Next]_vars

\* The lifecycle together with the relay commands the Razor extension executes.
NextRelay ==
    \/ Lifecycle(MaxClients)
    \/ \E cmd \in RelayCommands, p \in Payloads : InvokeCommand(cmd, p)

SpecRelay == Init /\ [][NextRelay]_vars

\* The lifecycle together with changes of the installed extensions.
NextExtensions ==
    \/ Lifecycle(MaxActivations)
    \/ \E present \in BOOLEAN : ExtensionsChanged(present)

SpecExtensions == Init /\ [][NextExtensions]_vars

\* start() over every log level the options may hold, recognized or not.
AllLogLevels == {<<"Trace">>, <<"Debug">>, <<"Information">>, <<"Warning">>, <<"Error">>,
                 <<"Critical">>, <<"None">>, <<"trace">>, <<"Verbose">>, <<>>}

NextLevels ==
    \/ \E lvl \in AllLogLevels : Len(clients) < MaxStarts /\ CallStart(lvl)
    \/ \E found \in BOOLEAN : StartResumed(found, Solution)
    \/ \E c \in ClientIds, exists \in BOOLEAN : LaunchBegin(c, <<>>, "linux", exists)
    \/ \E c \in ClientIds, a \in Activations : LaunchFinish(c, a, FALSE)
    \/ \E c \in ClientIds : ClientRunning(c)

SpecLevels == Init /\ [][NextLevels]_vars

\* Server launches over every shape of the C# Devkit exports, with and without a
\* solution in the workspace, while extensions are installed and removed.
Solutions == {NoUri, Solution}

AllActivations ==
    {NoExports} \cup
    [defined : {TRUE}, pipeFn : {TRUE}, pipeName : {<<>>, <<"pipe-1">>},
     starred : {<<>>, <<"/devkit", "/starred">>}] \cup
    [defined : {TRUE}, pipeFn : {FALSE}, pipeName : {<<>>},
     starred : {<<>>, <<"/devkit", "/starred">>}]

Launches(max) ==
    \/ Len(clients) < max /\ CallStart(<<"Information">>)
    \/ \E found \in BOOLEAN, sln \in Solutions : StartResumed(found, sln)
    \/ \E c \in ClientIds, exists \in BOOLEAN : LaunchBegin(c, <<>>, "linux", exists)
    \/ \E c \in ClientIds, a \in AllActivations, dbg \in BOOLEAN : LaunchFinish(c, a, dbg)
    \/ \E c \in ClientIds : ClientRunning(c)
    \/ \E present \in BOOLEAN : ExtensionsChanged(present)

NextLaunch == Launches(MaxLaunches)

SpecLaunch == Init /\ [][NextLaunch]_vars

\* The same launches, with a second start() while the first client still launches.
NextOverlap == Launches(MaxOverlaps)

SpecOverlap == Init /\ [][NextOverlap]_vars

\* The serverPath option (<<>> when unset) and the platforms platformInfo reports.
ServerPaths ==
    {<<>>, <<"/srv", "/Server", ".dll">>, <<"/srv", ".dll", "/Server">>,
     <<"/srv", "/Server", ".DLL">>}

Platforms == {"linux", "win32", "darwin"}

NextSpawn ==
    \/ Len(clients) < MaxSpawns /\ CallStart(<<"Information">>)
    \/ \E found \in BOOLEAN : StartResumed(found, Solution)
    \/ \E c \in ClientIds, optionPath \in ServerPaths, platform \in Platforms,
          exists \in BOOLEAN : LaunchBegin(c, optionPath, platform, exists)
    \/ \E c \in ClientIds, a \in {NoExports, WithPipeName}, dbg \in BOOLEAN :
          LaunchFinish(c, a, dbg)
    \/ \E c \in ClientIds : ClientRunning(c)

SpecSpawn == Init /\ [][NextSpawn]_vars

\* The options the provider holds at one time or another.  Each call of
\* optionProvider.GetLatestOptions() returns the options held at that moment,
\* and a settings change between two calls replaces them.
OptionSnapshots ==
    {[logLevel |-> <<"Information">>, serverPath |-> <<"/srv", "/a", "/Server">>,
      waitForDebugger |-> FALSE],
     [logLevel |-> <<"Trace">>, serverPath |-> <<"/srv", "/b", "/Server">>,
      waitForDebugger |-> TRUE]}

NextOptions ==
    \/ \E options \in OptionSnapshots :
          Len(clients) < MaxOptionStarts /\ CallStart(options.logLevel)
    \/ \E found \in BOOLEAN : StartResumed(found, Solution)
    \/ \E c \in ClientIds, options \in OptionSnapshots, exists \in BOOLEAN :
          LaunchBegin(c, options.serverPath, "linux", exists)
    \/ \E c \in ClientIds, options \in OptionSnapshots :
          LaunchFinish(c, NoExports, options.waitForDebugger)
    \/ \E c \in ClientIds : ClientRunning(c)

SpecOptions == Init /\ [][NextOptions]_vars

\* The clients created so far and the one the suspended call will still create.
ClientsDue == Len(clients) + (IF overlapping.op \in {"start", "restart"} THEN 1 ELSE 0)

\* start(), stop() and restart() called while another of them is suspended.
NextReentrant ==
    \/ ClientsDue < MaxReentrantClients /\ CallStart(<<"Information">>)
    \/ StartResumed(TRUE, NoUri)
    \/ CallStop
    \/ ClientsDue < MaxReentrantClients /\ CallRestart
    \/ \E resolved \in BOOLEAN : StopSettled(resolved, <<"Information">>)
    \/ \E c \in ClientIds : LaunchBegin(c, <<>>, "linux", TRUE)
    \/ \E c \in ClientIds : LaunchFinish(c, NoExports, FALSE)
    \/ \E c \in ClientIds : ClientRunning(c)
    \/ Interleave

SpecReentrant == Init /\ [][NextReentrant]_vars

\* ---------------------------------------------------------------- claims

\* C1: in every reachable state at most one language client that was started
\* and not yet stopped exists, and at most one server child process runs.
C1_AtMostOneLive ==
    /\ Cardinality(LiveClients) <= 1
    /\ Cardinality(RunningProcesses) <= 1

\* The client was shut down with the stop timeout and disposed, and its process is gone.
FullyStopped(cs, c) ==
    /\ cs[c].state = "Stopped"
    /\ cs[c].process # "running"
    /\ cs[c].stopTimeout = 10000
    /\ cs[c].disposeTimeout = 10000

C2_Step ==
    /\ (call.op = "restart" /\ call.pc = "stop_wait" /\ call'.pc = "start_wait")
          => /\ languageClient' = 0
             /\ call.awaited # 0 => FullyStopped(clients', call.awaited)
    /\ (call.op = "restart" /\ Len(clients') > Len(clients))
          => /\ languageClient = 0
             /\ call.awaited # 0 => FullyStopped(clients, call.awaited)
    /\ (call.op = "restart" /\ call.pc = "stop_wait" /\ call'.pc = "idle")
          => /\ last'.result = "rejected"
             /\ last'.created = 0
             /\ Len(clients') = Len(clients)
             /\ RunningProcesses' = RunningProcesses

\* C2: restart() enters start() only after stop() resolved, with the held client
\* shut down (timeout 10000), disposed and the handle cleared, and creates a
\* client only then; when stop() rejects, restart() rejects without invoking
\* start(), creating a client or spawning a process.
C2_RestartStopsFirst == [][C2_Step]_vars

\* A restart() that stopped a client and created the next one.
C2_Witness ==
    /\ last.op = "restart"
    /\ last.created = 2
    /\ FullyStopped(clients, 1)

\* C3: when the resolved server path does not exist, the start() that created
\* the client rejects and no child process is spawned.
C3_MissingBinaryRejects ==
    \A c \in ClientIds :
        (clients[c].failure = "missing-binary" /\ call.pc = "idle" /\ last.created = c)
            => (last.result = "rejected" /\ clients[c].process = "none")

\* The last lifecycle call was a start() or restart() that hit a fatal error.
FatalHit ==
    /\ call.pc = "idle"
    /\ last.op \in {"start", "restart"}
    /\ IF last.created = 0
       THEN last.error = "invalid-log-level"
       ELSE clients[last.created].failure \in {"missing-binary", "missing-export"}

\* C4: after a start() or restart() that hit a fatal error no client is held
\* and no server child process runs.
C4_FatalLeavesStopped == FatalHit => (languageClient = 0 /\ RunningProcesses = {})

RecognizedTrace ==
    (<<"Trace">> :> "Verbose") @@ (<<"Debug">> :> "Messages") @@ (<<"Information">> :> "Off")
    @@ (<<"Warning">> :> "Off") @@ (<<"Error">> :> "Off") @@ (<<"Critical">> :> "Off")
    @@ (<<"None">> :> "Off")

C5_Step ==
    /\ \A c \in 1..Len(clients') :
          /\ clients'[c].logLevel \in DOMAIN RecognizedTrace
          /\ clients'[c].traceLevel = RecognizedTrace[clients'[c].logLevel]
    /\ (call.pc = "start_wait" /\ call.logLevel \notin DOMAIN RecognizedTrace
        /\ call'.pc = "idle")
          => /\ last'.result = "rejected"
             /\ last'.created = 0
             /\ clients' = clients
             /\ languageClient' = languageClient

\* C5: every client carries the trace level the table gives for its log level
\* (Trace: Verbose, Debug: Messages, the five others: Off), and a start() with
\* any other log level rejects without creating a client or spawning a process.
C5_TraceLevels == [][C5_Step]_vars

\* A start() rejected for its log level, beside a client started with Debug.
C5_Witness ==
    /\ last.error = "invalid-log-level"
    /\ \E c \in ClientIds : clients[c].logLevel = <<"Debug">> /\ clients[c].traceLevel = "Messages"

\* The positions of the --solutionPath flag in an argument list.
SolutionFlags(args) == {i \in 1..Len(args) : args[i] = <<"--solutionPath">>}

\* C6: a launch that obtained a pipe name passes no --solutionPath; a launch
\* that obtained none and found a solution passes exactly one, followed by the
\* solution's file-system path.
C6_SolutionPathOnlyWithoutPipe ==
    \A c \in ClientIds :
        clients[c].launch = "done" =>
            LET args == clients[c].spawn.args
                flags == SolutionFlags(args)
            IN  /\ clients[c].pipeName # <<>> => flags = {}
                /\ (clients[c].pipeName = <<>> /\ clients[c].solutionPath # NoUri)
                      => /\ Cardinality(flags) = 1
                         /\ \A i \in flags :
                               i < Len(args) /\ args[i + 1] = <<"/work", "/app", ".sln">>

\* A launch with a pipe name in a workspace that holds a solution.
C6_Witness ==
    \E c \in ClientIds :
        /\ clients[c].launch = "done"
        /\ clients[c].pipeName = <<"pipe-1">>
        /\ clients[c].solutionPath = Solution

\* The held client is running and every client before it was stopped.
OneLiveClient ==
    /\ languageClient # 0
    /\ clients[languageClient].state = "Running"
    /\ \A c \in ClientIds \ {languageClient} : clients[c].state = "Stopped"

C7_Step ==
    (OneLiveClient /\ relay' # relay)
        => /\ relay'.count = 1
           /\ relay'.receiver = languageClient
           /\ relay'.method = RelayMethod(relay'.command)
           /\ relay'.sent = relay'.payload

\* C7: while the held client is the one live client, a relay command sends
\* exactly one notification of its method, with the payload it was given,
\* to that client's server.
C7_RelayReachesLiveServer == [][C7_Step]_vars

C8_Step ==
    /\ prompts' = prompts + 1
          => (devkitInstalled' /\ wasActivatedWithCSharpDevkit = "false")
    /\ (devkitInstalled' # devkitInstalled /\ devkitInstalled'
        /\ wasActivatedWithCSharpDevkit = "false")
          => prompts' = prompts + 1
    /\ devkitInstalled' # devkitInstalled
          => /\ wasActivatedWithCSharpDevkit' = wasActivatedWithCSharpDevkit
             /\ languageClient' = languageClient
             /\ clients' = clients
             /\ commands' = commands
             /\ call' = call

\* C8: an extension change shows the restart prompt exactly when C# Devkit is
\* present now and the flag is false; with the flag undefined or true, or with
\* C# Devkit absent, it shows none; and it changes nothing else.
C8_PromptIffNewlyInstalled == [][C8_Step]_vars

\* A prompt was shown after an activation without C# Devkit.
C8_Witness ==
    /\ prompts = 1
    /\ devkitInstalled
    /\ wasActivatedWithCSharpDevkit = "false"

\* C9: after an activation without C# Devkit the restart prompt is shown at
\* most once until the next activation.
C9_PromptAtMostOnce == wasActivatedWithCSharpDevkit = "false" => prompts <= 1

C10_Step ==
    /\ (call.pc = "idle" /\ languageClient = 0 /\ call'.op \in {"stop", "deactivate"})
          => /\ clients' = clients
             /\ call'.awaited = 0
    /\ (call.op \in {"stop", "deactivate"} /\ call.pc = "stop_wait" /\ call.awaited = 0
        /\ call' # call)
          => /\ last'.result = "resolved"
             /\ last'.op = call.op
             /\ clients' = clients
             /\ languageClient' = 0
             /\ wasActivatedWithCSharpDevkit' = wasActivatedWithCSharpDevkit

\* C10: stop() and deactivate() with no client held resolve, request no
\* shutdown and no dispose, and leave the handle absent and the flag as it was.
C10_StopWithoutClient == [][C10_Step]_vars

\* A stop() that resolved on a server that was never started.
C10_Witness ==
    /\ clients = <<>>
    /\ last.op = "stop"
    /\ last.result = "resolved"
    /\ languageClient = 0

\* The launch of client c found C# Devkit installed and its activation gave
\* exports without getBrokeredServiceServerPipeName, or no exports object.
LacksPipeExport(c) ==
    /\ clients[c].devkitFound
    /\ clients[c].launch \in {"done", "failed"}
    /\ clients[c].failure # "missing-binary"
    /\ ~clients[c].vsGreenExports.pipeFn

\* C11: a launch that found C# Devkit installed and got exports without
\* getBrokeredServiceServerPipeName, or no exports object at all, fails with
\* the missing-export error and spawns no process.
C11_MissingExportFailsLaunch ==
    \A c \in ClientIds :
        LacksPipeExport(c)
            => /\ clients[c].failure = "missing-export"
               /\ clients[c].state = "StartFailed"
               /\ clients[c].process = "none"

\* The launch arguments of client c, from what its launch recorded.
LaunchArgs(c) ==
    BuildArgs(clients[c].waitForDebugger, clients[c].logLevel, clients[c].pipeName,
              clients[c].solutionPath, clients[c].starred)

\* C12: a launched server whose resolved path ends in ".dll" is spawned as
\* "dotnet" with the path as first argument followed by the launch arguments;
\* any other path is itself the command, with the launch arguments.
C12_DllRunsUnderDotnet ==
    \A c \in ClientIds :
        clients[c].launch = "done" =>
            LET serverPath == clients[c].serverPath
                spawn == clients[c].spawn
            IN  IF serverPath[Len(serverPath)] = ".dll"
                THEN /\ spawn.command = <<"dotnet">>
                     /\ Head(spawn.args) = serverPath
                     /\ Tail(spawn.args) = LaunchArgs(c)
                ELSE /\ spawn.command = serverPath
                     /\ spawn.args = LaunchArgs(c)

\* The bundled server was launched on macOS, as a .dll under dotnet.
C12_Witness ==
    \E c \in ClientIds :
        /\ clients[c].launch = "done"
        /\ clients[c].serverPath =
              <<"<clientRoot>", "/..", "/.roslyn", "/",
                "Microsoft.CodeAnalysis.LanguageServer", ".dll">>
        /\ clients[c].spawn.command = <<"dotnet">>
        /\ clients[c].process = "running"

\* The positions of a flag in an argument list.
FlagAt(args, flag) == {i \in 1..Len(args) : args[i] = <<flag>>}

\* The flag occurs once, followed by the value.
FlagWithValue(args, flag, value) ==
    /\ Cardinality(FlagAt(args, flag)) = 1
    /\ \A i \in FlagAt(args, flag) : i < Len(args) /\ args[i + 1] = value

\* Every occurrence of the first flag is before every occurrence of the second.
FlagBefore(args, first, second) ==
    \A i \in FlagAt(args, first), j \in FlagAt(args, second) : i < j

\* The arguments the server of client c was given, after the .dll path if any.
ServerArgs(c) ==
    IF clients[c].spawn.command = <<"dotnet">>
    THEN Tail(clients[c].spawn.args)
    ELSE clients[c].spawn.args

C14_Step ==
    \A c \in ClientIds :
        clients'[c].trace # clients[c].trace => clients'[c].state = "Running"

\* C14: setTrace is only ever invoked on a client that is in the Running state.
C14_TraceOnlyWhenRunning == [][C14_Step]_vars

\* C15: the log level, the server path and the debugger-wait flag one launch
\* uses all come from one snapshot of the options.
C15_OneOptionsSnapshot ==
    \A c \in ClientIds :
        clients[c].launch = "done" =>
            \E options \in OptionSnapshots :
                /\ clients[c].logLevel = options.logLevel
                /\ clients[c].serverPath = options.serverPath
                /\ clients[c].waitForDebugger = options.waitForDebugger

C16_Step ==
    /\ (call.pc = "stop_wait" /\ call'.pc = "idle" /\ last'.result = "rejected")
          => /\ last'.op = call.op
             /\ last'.error = "stop-failed"
             /\ languageClient = call.awaited
             /\ languageClient' = languageClient
             /\ clients' = clients
    /\ (last.error = "stop-failed" /\ call.pc = "idle" /\ call'.pc = "stop_wait")
          => /\ call'.awaited # 0
             /\ call'.awaited = languageClient
             /\ clients'[languageClient].stopTimeout = 10000

\* C16: when the client's shutdown rejects, stop() rejects with that failure,
\* disposes nothing and leaves the handle on the same client, and the next
\* stop() or restart() requests the shutdown of that client again.
C16_FailedStopKeepsClient == [][C16_Step]_vars

\* A stop() of a running client timed out and a second stop() of it is in flight.
C16_Witness ==
    /\ last.op = "stop"
    /\ last.error = "stop-failed"
    /\ call.pc = "stop_wait"
    /\ call.awaited = languageClient
    /\ languageClient # 0
    /\ clients[call.awaited].state = "Running"
    /\ clients[call.awaited].disposeTimeout = 0

C17_Step ==
    (call.pc = "stop_wait" /\ call.awaited # 0 /\ call' # call)
        => /\ \A c \in ClientIds :
                 clients'[c].disposeTimeout # clients[c].disposeTimeout
                     => (c = call.awaited /\ clients'[c].state = "Stopped")
           /\ languageClient' # languageClient => languageClient = call.awaited
           /\ \A c \in ClientIds :
                 (c = languageClient /\ clients'[c].state \in {"Starting", "Running"})
                     => languageClient' = c

\* C17: also when lifecycle calls overlap, a stop() that requested the shutdown
\* of a client disposes and clears only that client, disposes no client that
\* was not shut down, and leaves no started client without a reference.
C17_StopActsOnItsClient == [][C17_Step]_vars

C18_Step ==
    \A c \in ClientIds :
        (clients[c].state = "Starting" /\ clients'[c].state = "Running")
            => /\ clients'[c].trace = clients[c].traceLevel
               /\ ~clients'[c].traceError
               /\ \A d \in ClientIds \ {c} : clients'[d].trace = clients[d].trace

\* C18: when a client turns Running, the trace level its start() derived is
\* set on that client, on no other client, and the handler does not fail on
\* an absent handle.
C18_TraceOnOwnClient == [][C18_Step]_vars

\* C19: a restart() that stopped the client before it and created the next one
\* resolves, and leaves each relay command with one handler, bound to the
\* client now held.
C19_RestartRebindsHandlers ==
    (/\ call.pc = "idle"
     /\ last.op = "restart"
     /\ last.created # 0
     /\ \A c \in ClientIds \ {last.created} : clients[c].state = "Stopped")
        => /\ last.result = "resolved"
           /\ languageClient = last.created
           /\ \A command \in RelayCommands : commands[command] = languageClient

====
